---- MODULE Spec2Model ----
(***************************************************************************)
(* One canal of the NC execution engine (StatefulIsoTurnCanal) together    *)
(* with the handler chain it drives and the CNCState it owns.              *)
(*                                                                         *)
(* Numbers.  Axis values are Python floats.  Every literal of the node     *)
(* pool parses to an integer of small magnitude, on which float addition,  *)
(* subtraction and multiplication are exact, so an axis value is modelled  *)
(* by the integer it equals.  Interpolated coordinates sx + (ex - sx)*i/n  *)
(* are carried as exact fractions <<num, den>> in lowest terms.  A         *)
(* Euclidean distance is carried as its square, a duration as a record     *)
(* [sq, per, pi] that stands for pi^pi * sqrt(sq / per) seconds.           *)
(*                                                                         *)
(* Arcs.  Angles are carried in units of pi/4, exactly; the arcs of the    *)
(* node pool start and end on a multiple of pi/4 as seen from the centre.  *)
(* A coordinate c + r*cos(theta) is carried as the fraction it equals when *)
(* that is rational and as the term <<c, r^2, theta>> otherwise, theta     *)
(* folded into [0, pi], so that equal terms are equal numbers.  The        *)
(* arithmetic is that of the reals: the rounding of math.cos, math.sin and *)
(* math.atan2 is not modelled.                                             *)
(*                                                                         *)
(* Objects.  Node objects have identity: a node is named by a string, its  *)
(* parsed content is fixed (NodePool), and its mutable links live in       *)
(* next_ncCode / before_ncCode.  "None" is Python's None.                  *)
(***************************************************************************)
EXTENDS Integers, Sequences, FiniteSets, TLC

VARIABLES
    state,          \* self._state : CNCState (axes, modal_groups, feed_rate)
    nodes,          \* self._nodes : the node list of the current run
    tool_path,      \* self._tool_path : sequence of <<points, duration>>
    next_ncCode,    \* node._next_ncCode of every node object
    before_ncCode,  \* node._before_ncCode of every node object
    control,        \* lookup tables handed to the ControlFlowHandler
    pc,             \* "idle" | "running" | "returned" | "raised"
    node,           \* local `node` of run_nc_code_list
    steps,          \* local `steps`
    max_steps,      \* local `max_steps`
    error,          \* message of the exception that left run_nc_code_list
    calls,          \* history: chain invocations made by the current run
    emitted,        \* history: invocations that returned non-null points
    run_start,      \* history: CNCState the current run started from
    canals,         \* StatefulIsoTurnNCControl._canals: the canals not executing
    sel,            \* the canal the fields above belong to (0: no controller)
    history,        \* history: per canal, the lists it was asked to run
    reply,          \* what the last call on the controller handed back
    heap            \* CNCState objects and the mappings they refer to

\* the controller around the canal, and the object store of CNCState.clone
aux == <<canals, sel, history, reply, heap>>

vars == <<state, nodes, tool_path, next_ncCode, before_ncCode, control, pc,
          node, steps, max_steps, error, calls, emitted, run_start,
          canals, sel, history, reply, heap>>

-----------------------------------------------------------------------------
(* Bounds of the model *)

MaxLen == 2                     \* longest straight-line program drawn

(* Program constants *)

MaxStepsFloor == 10000          \* max(10000, ...)
StepsPerNode == 100             \* len(self._nodes) * 100
MaxSegmentNum == 1              \* max_segment = 0.5 = MaxSegmentNum / MaxSegmentDen
MaxSegmentDen == 2
DefaultFeed == 1                \* state.feed_rate or 1.0
SecondsPerMinute == 60          \* float(feed) / 60.0

-----------------------------------------------------------------------------
(* Small helpers *)

Get(f, k, default) == IF k \in DOMAIN f THEN f[k] ELSE default

Abs(x) == IF x < 0 THEN -x ELSE x

Max(a, b) == IF a >= b THEN a ELSE b

RECURSIVE Gcd(_, _)
Gcd(a, b) == IF b = 0 THEN a ELSE Gcd(b, a % b)

\* the fraction num/den (den > 0) in lowest terms
Rat(num, den) ==
    LET g == Gcd(Abs(num), den) IN <<num \div g, den \div g>>

RAdd(a, b) == Rat(a[1] * b[2] + b[1] * a[2], a[2] * b[2])

RSub(a, b) == Rat(a[1] * b[2] - b[1] * a[2], a[2] * b[2])

RMul(a, b) == Rat(a[1] * b[1], a[2] * b[2])

\* square roots of the fractions that have a rational one
IsSquare(k) == k >= 0 /\ \E r \in 0..k : r * r = k

ISqrt(k) == CHOOSE r \in 0..k : r * r = k

RIsSquare(q) == IsSquare(q[1]) /\ IsSquare(q[2])

RSqrt(q) == <<ISqrt(q[1]), ISqrt(q[2])>>

IsPrefix(s, t) == Len(s) <= Len(t) /\ SubSeq(t, 1, Len(s)) = s

\* str.upper() on the strings the node pool uses
Upper(s) ==
    CASE s = "x" -> "X"
      [] s = "y" -> "Y"
      [] s = "u" -> "U"
      [] s = "g1" -> "G1"
      [] s = "g91" -> "G91"
      [] OTHER -> s

\* float(v) on the literals the node pool uses; a text outside the table
\* makes float() raise
FloatOf ==
    ("10" :> 10) @@ ("0" :> 0) @@ ("0.0" :> 0) @@ ("1" :> 1) @@ ("1.0" :> 1) @@ ("2" :> 2)
    @@ ("2.0" :> 2) @@ ("3" :> 3) @@ ("4" :> 4) @@ ("5" :> 5) @@ ("-1" :> -1)
    @@ ("-2" :> -2) @@ ("100" :> 100) @@ ("300" :> 300)

_to_float(v, default) == IF v \in DOMAIN FloatOf THEN FloatOf[v] ELSE default

-----------------------------------------------------------------------------
(* Command nodes.  A node's content is what the parser produced: g_code,   *)
(* m_code, command_parameter (letter -> literal text, in insertion order)  *)
(* and loop_command (here a sequence of tokens [op, tag]).                 *)

P(k, v) == <<k, v>>

Node(g, params, loop) ==
    [g_code |-> g, m_code |-> <<>>, command_parameter |-> params, loop_command |-> loop]

MNode(m) == [g_code |-> <<>>, m_code |-> <<m>>, command_parameter |-> <<>>, loop_command |-> <<>>]

NodePool ==
    \* G1 X1.0 Y2.0 Z0.0 F100
    ("lin_xyz" :> Node(<<"G1">>, <<P("X", "1.0"), P("Y", "2.0"), P("Z", "0.0"), P("F", "100")>>, <<>>))
    \* G1 X3 Y4
    @@ ("lin_xy" :> Node(<<"G1">>, <<P("X", "3"), P("Y", "4")>>, <<>>))
    \* G91 G1 X5 F300
    @@ ("g91_x5" :> Node(<<"G91", "G1">>, <<P("X", "5"), P("F", "300")>>, <<>>))
    \* G1 X5
    @@ ("lin_x5" :> Node(<<"G1">>, <<P("X", "5")>>, <<>>))
    \* G1 X0
    @@ ("lin_x0" :> Node(<<"G1">>, <<P("X", "0")>>, <<>>))
    \* G0 U3 W-1
    @@ ("rap_uw" :> Node(<<"G0">>, <<P("U", "3"), P("W", "-1")>>, <<>>))
    \* g1 x2 Zabc  (lower-case letters, an unparseable literal)
    @@ ("lin_low" :> Node(<<"g1">>, <<P("x", "2"), P("Z", "abc")>>, <<>>))
    \* G01 Z-2 A1
    @@ ("lin_za" :> Node(<<"G01">>, <<P("Z", "-2"), P("A", "1")>>, <<>>))
    \* G2 X1 Y1  (no I, J or R)
    @@ ("arc_nocenter" :> Node(<<"G2">>, <<P("X", "1"), P("Y", "1")>>, <<>>))
    \* G3 R2  (end = start: zero chord)
    @@ ("arc_zerochord" :> Node(<<"G3">>, <<P("R", "2")>>, <<>>))
    \* G3 X1 Y1 R0  (a radius of zero and no centre)
    @@ ("arc_r_zero" :> Node(<<"G3">>, <<P("X", "1"), P("Y", "1"), P("R", "0")>>, <<>>))
    \* G3 X10 Y0 R5  (half circle given by its radius)
    @@ ("arc_r_half" :> Node(<<"G3">>, <<P("X", "10"), P("Y", "0"), P("R", "5")>>, <<>>))
    \* G2 X1 Y1 R1
    @@ ("arc_r_cw" :> Node(<<"G2">>, <<P("X", "1"), P("Y", "1"), P("R", "1")>>, <<>>))
    \* G3 X1 Y1 R-1
    @@ ("arc_r_neg" :> Node(<<"G3">>, <<P("X", "1"), P("Y", "1"), P("R", "-1")>>, <<>>))
    \* G3 X1 Y1 J1  (quarter circle given by its centre)
    @@ ("arc_j_ccw" :> Node(<<"G3">>, <<P("X", "1"), P("Y", "1"), P("J", "1")>>, <<>>))
    \* G2 X1 Y1 J1
    @@ ("arc_j_cw" :> Node(<<"G2">>, <<P("X", "1"), P("Y", "1"), P("J", "1")>>, <<>>))
    \* G2 I1  (end = start)
    @@ ("arc_i_full" :> Node(<<"G2">>, <<P("I", "1")>>, <<>>))
    \* G3 X3 Y0 I1  (end off the circle through the start)
    @@ ("arc_i_off" :> Node(<<"G3">>, <<P("X", "3"), P("Y", "0"), P("I", "1")>>, <<>>))
    \* G3 X2 Y0 Z2 I1  (helix)
    @@ ("arc_i_z" :> Node(<<"G3">>, <<P("X", "2"), P("Y", "0"), P("Z", "2"), P("I", "1")>>, <<>>))
    \* G3 X4 Y0 R1  (radius shorter than half the chord)
    @@ ("arc_r_short" :> Node(<<"G3">>, <<P("X", "4"), P("Y", "0"), P("R", "1")>>, <<>>))
    \* N1  (a bare label)
    @@ ("label_1" :> Node(<<>>, <<P("N", "1")>>, <<>>))
    \* N2 G1 X0  (a labelled move)
    @@ ("label_2_lin" :> Node(<<"G1">>, <<P("N", "2"), P("X", "0")>>, <<>>))
    \* DO1, END1  (loop markers), G1 X5 DO1  (a move that opens a loop)
    @@ ("do_1" :> Node(<<>>, <<>>, <<[op |-> "DO", tag |-> "1"]>>))
    @@ ("end_1" :> Node(<<>>, <<>>, <<[op |-> "END", tag |-> "1"]>>))
    @@ ("do_1_lin" :> Node(<<"G1">>, <<P("X", "5")>>, <<[op |-> "DO", tag |-> "1"]>>))
    \* M3, M5, M8, M9, M0, M1, M7  (no motion)
    @@ ("m3" :> MNode("M3")) @@ ("m5" :> MNode("M5")) @@ ("m8" :> MNode("M8"))
    @@ ("m9" :> MNode("M9")) @@ ("m0" :> MNode("M0")) @@ ("m1" :> MNode("M1"))
    @@ ("m7" :> MNode("M7"))
    \* T1, T0101, T10000  (tool calls)
    @@ ("tool_1" :> Node(<<>>, <<P("T", "1")>>, <<>>))
    @@ ("tool_0101" :> Node(<<>>, <<P("T", "0101")>>, <<>>))
    @@ ("tool_10000" :> Node(<<>>, <<P("T", "10000")>>, <<>>))
    \* GOTO 1
    @@ ("goto_1" :> Node(<<>>, <<>>, <<[op |-> "GOTO", tag |-> "1"]>>))
    \* GOTO 2
    @@ ("goto_2" :> Node(<<>>, <<>>, <<[op |-> "GOTO", tag |-> "2"]>>))
    \* N3 GOTO 3  (a jump to the node itself)
    @@ ("goto_self" :> Node(<<>>, <<P("N", "3")>>, <<[op |-> "GOTO", tag |-> "3"]>>))
    \* GOTO 4  (no such label in any program)
    @@ ("goto_4" :> Node(<<>>, <<>>, <<[op |-> "GOTO", tag |-> "4"]>>))

NodeIds == DOMAIN NodePool

\* the node objects straight-line programs are drawn from
MotionPool ==
    {"lin_xyz", "lin_xy", "g91_x5", "lin_x5", "rap_uw", "lin_low", "lin_za",
     "arc_nocenter", "arc_zerochord", "label_1"}

\* lists of distinct node objects (the parser makes one object per line)
Distinct(l) == \A i, j \in 1..Len(l) : i # j => l[i] # l[j]

RECURSIVE SeqsUpTo(_, _)
SeqsUpTo(S, n) ==
    IF n = 0 THEN {<<>>}
    ELSE LET shorter == SeqsUpTo(S, n - 1)
         IN shorter \cup {Append(l, x) : l \in {m \in shorter : Len(m) = n - 1}, x \in S}

MotionPrograms == {l \in SeqsUpTo(MotionPool, MaxLen) : Distinct(l)}

\* programs whose control flow leaves source order
JumpPrograms ==
    { <<"label_1", "goto_1">>,                          \* backward jump, no motion
      <<"lin_xyz", "goto_2", "lin_xy", "label_2_lin">>, \* forward jump skips a move
      <<"lin_x5", "goto_4", "lin_xy">>,                 \* jump to a missing label
      <<"lin_x5", "goto_self", "lin_xy">>,              \* jump to the node itself
      <<"goto_1">> }                                    \* jump to a missing label

\* a backward jump that repeats a move
LoopPrograms ==
    { <<"label_2_lin", "m3", "m8", "m7", "m0", "m1", "m9", "m5", "goto_2">> }

\* programs with tool calls
ToolPrograms ==
    { <<"tool_1">>, <<"tool_0101">>, <<"tool_10000">>,
      <<"lin_x5", "tool_10000", "lin_xy">> }

Programs == MotionPrograms \cup JumpPrograms \cup ToolPrograms

\* the arcs, each run from the origin and followed by at most one more node
ArcPool ==
    {"arc_r_half", "arc_r_cw", "arc_r_neg", "arc_j_ccw", "arc_j_cw", "arc_i_full",
     "arc_i_off", "arc_i_z", "arc_r_short", "arc_nocenter", "arc_zerochord",
     "arc_r_zero"}

ArcPrograms ==
    {<<a>> : a \in ArcPool}
    \cup {l \in {<<a, m>> : a \in ArcPool, m \in {"lin_xyz", "lin_x5", "lin_x0", "arc_i_full", "label_1", "arc_nocenter",
                                           "arc_zerochord", "arc_r_zero"}} :
            Distinct(l)}

-----------------------------------------------------------------------------
(* CNCState *)

\* CNCState(): axes default to X, Y, Z = 0.0, no modal set, no feed rate.
\* feed_rate is <<>> for None and <<v>> for the value v.
CNCState(axes, distance, feed_rate) ==
    [axes |-> axes, modal_groups |-> [distance |-> distance], feed_rate |-> feed_rate]

DefaultAxes == [ax \in {"X", "Y", "Z"} |-> 0]

DefaultState == CNCState(DefaultAxes, "None", <<>>)

get_axis(st, name) == Get(st.axes, name, 0)

get_modal(st, group) == st.modal_groups[group]

update_axes(st, updates) ==
    [st EXCEPT !.axes =
        [k \in DOMAIN st.axes \cup DOMAIN updates |->
            IF k \in DOMAIN updates THEN updates[k] ELSE st.axes[k]]]

\* mutant: in incremental mode the delta is taken as the position
resolve_target_NoAdd(st, target_spec, absolute) ==
    [ax \in DOMAIN st.axes \cup DOMAIN target_spec |->
        IF absolute
        THEN IF ax \in DOMAIN target_spec THEN target_spec[ax] ELSE get_axis(st, ax)
        ELSE IF ax \in DOMAIN target_spec THEN target_spec[ax] ELSE get_axis(st, ax)]

resolve_target(st, target_spec, absolute) ==
    [ax \in DOMAIN st.axes \cup DOMAIN target_spec |->
        IF absolute
        THEN IF ax \in DOMAIN target_spec THEN target_spec[ax] ELSE get_axis(st, ax)
        ELSE get_axis(st, ax) + Get(target_spec, ax, 0)]

\* compute_distance(a, b, axes), as the square of the value it returns
compute_distance(a, b, axes) ==
    LET sq(ax) == (Get(a, ax, 0) - Get(b, ax, 0)) * (Get(a, ax, 0) - Get(b, ax, 0))
        RECURSIVE Sum(_)
        Sum(S) == IF S = {} THEN 0
                  ELSE LET ax == CHOOSE x \in S : TRUE IN sq(ax) + Sum(S \ {ax})
    IN Sum(axes)

-----------------------------------------------------------------------------
(* MotionHandler *)

\* what a handler call hands back: the returned pair (has = points are not
\* None, dur = <<>> for a None duration), the state and links it leaves, or
\* the exception it raised
Returned(has, pts, dur, st, nxt) ==
    [raised |-> FALSE, message |-> "", has |-> has, pts |-> pts, dur |-> dur,
     state |-> st, next_ncCode |-> nxt]

Raised(message, st, nxt) ==
    [raised |-> TRUE, message |-> message, has |-> FALSE, pts |-> <<>>, dur |-> <<>>,
     state |-> st, next_ncCode |-> nxt]

\* Handler.handle of the last link: no successor, (None, None)
TerminalHandle(nd, st, nxt) == Returned(FALSE, <<>>, <<>>, st, nxt)

\* the loop over node.g_code: the last motion code wins
RECURSIVE InterpModeFrom(_, _, _)
InterpModeFrom(g_code, i, mode) ==
    IF i > Len(g_code) THEN mode
    ELSE LET g == Upper(g_code[i])
             m0 == IF g \in {"G00", "G0", "G0 "} THEN "G00" ELSE mode
             m1 == IF g \in {"G01", "G1"} THEN "G01" ELSE m0
             m2 == IF g \in {"G02", "G2"} THEN "G02" ELSE m1
             m3 == IF g \in {"G03", "G3"} THEN "G03" ELSE m2
         IN InterpModeFrom(g_code, i + 1, m3)

InterpMode(g_code) == InterpModeFrom(g_code, 1, "None")

\* absolute_mode: False only when the distance modal is G91
AbsoluteMode(st) ==
    LET dm == get_modal(st, "distance")
    IN ~(dm # "None" /\ Upper(dm) = "G91")

\* the loop over command_parameter that builds target_spec
RECURSIVE TargetSpecFrom(_, _, _)
TargetSpecFrom(params, i, spec) ==
    IF i > Len(params) THEN spec
    ELSE LET key == Upper(params[i][1])
             v == params[i][2]
             mapped == CASE key = "U" -> "X" [] key = "V" -> "Y" [] key = "W" -> "Z" [] OTHER -> key
             put(k) == [a \in DOMAIN spec \cup {k} |-> IF a = k THEN _to_float(v, 0) ELSE spec[a]]
         IN TargetSpecFrom(params, i + 1,
                IF key \in {"X", "Y", "Z", "A", "B", "C"} THEN put(key)
                ELSE IF key \in {"U", "V", "W"} THEN put(mapped)
                ELSE spec)

TargetSpec(params) == TargetSpecFrom(params, 1, <<>>)

\* params = {k.upper(): _to_float(v)}: a later key overwrites an earlier one
RECURSIVE ParamsFrom(_, _, _)
ParamsFrom(params, i, acc) ==
    IF i > Len(params) THEN acc
    ELSE LET key == Upper(params[i][1])
         IN ParamsFrom(params, i + 1,
                [k \in DOMAIN acc \cup {key} |->
                    IF k = key THEN _to_float(params[i][2], 0) ELSE acc[k]])

Params(params) == ParamsFrom(params, 1, <<>>)

\* max(1, ceil(dist / max_segment)) for dist = sqrt(distsq) > 0
RECURSIVE LeastSegments(_, _)
LeastSegments(distsq, k) ==
    IF k * MaxSegmentNum * k * MaxSegmentNum >= distsq * MaxSegmentDen * MaxSegmentDen
    THEN k ELSE LeastSegments(distsq, k + 1)

\* mutant: the quotient is truncated, int(dist / max_segment), not rounded up
SegmentCount_Truncated(distsq) == Max(1, LeastSegments(distsq + 1, 0) - 1)

SegmentCount(distsq) == Max(1, LeastSegments(distsq, 0))

\* the duration pi^pi * sqrt(sq / per), in lowest terms
Seconds(sq, per, pi) ==
    LET q == Rat(sq, per)
    IN [sq |-> q[1], per |-> q[2], pi |-> IF q[1] = 0 THEN 0 ELSE pi]

ZeroDuration == Seconds(0, 1, 0)

\* feed = state.feed_rate or 1.0
FeedOf(st) ==
    LET fr == IF st.feed_rate = <<>> THEN 0 ELSE st.feed_rate[1]
    IN IF fr = 0 THEN DefaultFeed ELSE fr

\* mutant: dist / feed_mm_s whatever the sign of the feed; a negative sq
\* stands for the negative of the root
Duration_Unguarded(distsq, st) ==
    IF FeedOf(st) > 0
    THEN Seconds(distsq * SecondsPerMinute * SecondsPerMinute, FeedOf(st) * FeedOf(st), 0)
    ELSE Seconds(0 - distsq * SecondsPerMinute * SecondsPerMinute, FeedOf(st) * FeedOf(st), 0)

\* dist / feed_mm_s if feed_mm_s > 0 else 0.0
Duration(distsq, st) ==
    IF FeedOf(st) > 0
    THEN Seconds(distsq * SecondsPerMinute * SecondsPerMinute, FeedOf(st) * FeedOf(st), 0)
    ELSE ZeroDuration

\* Point(x, y, z, a, b, c)
Point(x, y, z, a, b, c) == <<x, y, z, a, b, c>>

\* mutant: the interpolation runs over i = 0 .. n-1, emitting the start point
\* and stopping short of the end
_linear_interpolate_FromStart(start, end, st) ==
    LET dist == compute_distance(start, end, {"X", "Y", "Z"})
        n == SegmentCount(dist)
        sx == Get(start, "X", 0)
        sy == Get(start, "Y", 0)
        sz == Get(start, "Z", 0)
        along(s0, e0, i) == Rat(s0 * n + (e0 - s0) * (i - 1), n)
        carried(ax) == Rat(Get(end, ax, Get(start, ax, 0)), 1)
    IN [pts |-> [i \in 1..n |->
                    Point(along(sx, Get(end, "X", sx), i),
                          along(sy, Get(end, "Y", sy), i),
                          along(sz, Get(end, "Z", sz), i),
                          carried("A"), carried("B"), carried("C"))],
        dur |-> Duration(dist, st)]

\* _linear_interpolate: (points, duration)
_linear_interpolate(start, end, st) ==
    LET dist == compute_distance(start, end, {"X", "Y", "Z"})
        n == SegmentCount(dist)
        sx == Get(start, "X", 0)
        sy == Get(start, "Y", 0)
        sz == Get(start, "Z", 0)
        along(s0, e0, i) == Rat(s0 * n + (e0 - s0) * i, n)
        carried(ax) == Rat(Get(end, ax, Get(start, ax, 0)), 1)
    IN IF dist <= 0
       THEN [pts |-> << Point(Rat(Get(end, "X", 0), 1), Rat(Get(end, "Y", 0), 1),
                              Rat(Get(end, "Z", 0), 1), Rat(Get(end, "A", 0), 1),
                              Rat(Get(end, "B", 0), 1), Rat(Get(end, "C", 0), 1)) >>,
             dur |-> ZeroDuration]
       ELSE [pts |-> [i \in 1..n |->
                        Point(along(sx, Get(end, "X", sx), i),
                              along(sy, Get(end, "Y", sy), i),
                              along(sz, Get(end, "Z", sz), i),
                              carried("A"), carried("B"), carried("C"))],
             dur |-> Duration(dist, st)]

\* _circular_interpolate, the determination of the centre: the exception it
\* raises, or "" when a centre exists
ArcCenterError(start, end, params) ==
    LET sx == Get(start, "X", 0)
        sy == Get(start, "Y", 0)
        ex == Get(end, "X", sx)
        ey == Get(end, "Y", sy)
        d2 == (ex - sx) * (ex - sx) + (ey - sy) * (ey - sy)
    IN IF "I" \in DOMAIN params \/ "J" \in DOMAIN params THEN ""
       ELSE IF "R" \in DOMAIN params /\ params["R"] # 0
            THEN IF d2 = 0 THEN "Invalid arc with zero chord length" ELSE ""
            ELSE "Arc requires I/J or R parameter"

\* h = sqrt(max(0, r*r - d2/4)) / sqrt(d2)
ChordHeight(r, d2) == RSqrt(Rat(Max(0, 4 * r * r - d2), 4 * d2))

\* of the two centres at height h over the chord, the one the cw flag picks
CenterAtHeight(sx, sy, ex, ey, h, cw) ==
    IF cw THEN <<RSub(Rat(sx + ex, 2), RMul(h, <<ey - sy, 1>>)),
                 RAdd(Rat(sy + ey, 2), RMul(h, <<ex - sx, 1>>))>>
          ELSE <<RAdd(Rat(sx + ex, 2), RMul(h, <<ey - sy, 1>>)),
                 RSub(Rat(sy + ey, 2), RMul(h, <<ex - sx, 1>>))>>

\* the centre <<cx, cy>> of the arc from <<sx, sy>> to <<ex, ey>>
CenterOf(sx, sy, ex, ey, params, cw) ==
    IF "I" \in DOMAIN params \/ "J" \in DOMAIN params
    THEN <<Rat(sx + Get(params, "I", 0), 1), Rat(sy + Get(params, "J", 0), 1)>>
    ELSE CenterAtHeight(sx, sy, ex, ey,
             ChordHeight(params["R"], (ex - sx) * (ex - sx) + (ey - sy) * (ey - sy)), cw)

\* the centre once ArcCenterError is ""
ArcCenter(start, end, params, cw) ==
    CenterOf(Get(start, "X", 0), Get(start, "Y", 0),
             Get(end, "X", Get(start, "X", 0)), Get(end, "Y", Get(start, "Y", 0)),
             params, cw)

\* math.atan2(y, x) in units of pi/4, for the directions that are a
\* multiple of pi/4
Atan2(y, x) ==
    LET diag == Abs(y[1]) * x[2] = Abs(x[1]) * y[2]
    IN CASE y[1] = 0 /\ x[1] >= 0 -> 0
         [] y[1] = 0 /\ x[1] < 0 -> 4
         [] x[1] = 0 /\ y[1] > 0 -> 2
         [] x[1] = 0 /\ y[1] < 0 -> -2
         [] diag /\ x[1] > 0 /\ y[1] > 0 -> 1
         [] diag /\ x[1] < 0 /\ y[1] > 0 -> 3
         [] diag /\ x[1] < 0 /\ y[1] < 0 -> -3
         [] diag /\ x[1] > 0 /\ y[1] < 0 -> -1

\* the sweep da in units of pi/4: a1 - a0, turned negative for a clockwise
\* arc and positive for a counter-clockwise one
Sweep(a0, a1, cw) ==
    LET da == a1 - a0
        da1 == IF cw /\ da > 0 THEN da - 8 ELSE da
    IN IF ~cw /\ da1 < 0 THEN da1 + 8 ELSE da1

\* ceil(arc_length / max_segment) for arc_length = |da| * pi/4 * sqrt(rho):
\* the least m with (m * max_segment)^2 >= arc_length^2, pisq / 1000 standing
\* for pi^2
RECURSIVE LeastArcSegments(_, _, _, _)
LeastArcSegments(da, rho, pisq, m) ==
    IF m * m * MaxSegmentNum * MaxSegmentNum * 16 * rho[2] * 1000
         >= pisq * da * da * rho[1] * MaxSegmentDen * MaxSegmentDen
    THEN m ELSE LeastArcSegments(da, rho, pisq, m + 1)

\* mutant: the floor of the linear move, max(1, ...), used for arcs
ArcSegmentCount_Min1(da, rho) ==
    LET lo == LeastArcSegments(da, rho, 9869, 0)
    IN Max(1, CHOOSE m \in {lo} : m = LeastArcSegments(da, rho, 9870, 0))

\* max(2, ceil(arc_length / max_segment)); 9.869 < pi^2 < 9.870, and the
\* count is the one both bounds give
ArcSegmentCount(da, rho) ==
    LET lo == LeastArcSegments(da, rho, 9869, 0)
    IN Max(2, CHOOSE m \in {lo} : m = LeastArcSegments(da, rho, 9870, 0))

\* theta (a fraction, in units of pi/4) folded into [0, 4]: cos(theta) is
\* cos of the folded angle
Fold(theta) ==
    IF theta[1] % (8 * theta[2]) > 4 * theta[2]
    THEN Rat(8 * theta[2] - (theta[1] % (8 * theta[2])), theta[2])
    ELSE Rat(theta[1] % (8 * theta[2]), theta[2])

\* the folded angles whose cosine has a rational square, and that square
NiceAngles ==
    {<<0, 1>>, <<2, 3>>, <<1, 1>>, <<4, 3>>, <<2, 1>>, <<8, 3>>, <<3, 1>>, <<10, 3>>, <<4, 1>>}

CosSq(t) ==
    CASE t \in {<<0, 1>>, <<4, 1>>} -> <<1, 1>>
      [] t \in {<<2, 3>>, <<10, 3>>} -> <<3, 4>>
      [] t \in {<<1, 1>>, <<3, 1>>} -> <<1, 2>>
      [] t \in {<<4, 3>>, <<8, 3>>} -> <<1, 4>>
      [] OTHER -> <<0, 1>>

\* c + cos(t) * sqrt(rho) for a folded angle t, offsq = cos(t)^2 * rho
ArcTerm(c, rho, t, offsq) ==
    IF rho[1] = 0 THEN c
    ELSE IF t \in NiceAngles /\ RIsSquare(offsq)
         THEN IF t[1] < 2 * t[2] THEN RAdd(c, RSqrt(offsq)) ELSE RSub(c, RSqrt(offsq))
         ELSE <<c[1], c[2], rho[1], rho[2], t[1], t[2]>>

ArcAt(c, rho, t) == ArcTerm(c, rho, t, RMul(CosSq(t), rho))

\* c + cos(theta) * sqrt(rho), theta a fraction in units of pi/4
ArcCoord(c, rho, theta) == ArcAt(c, rho, Fold(theta))

\* the loop over i = 1 .. n that builds the points, and the duration
ArcPoints(start, end, st, cx, cy, rho, a0, da, n) ==
    [pts |-> [i \in 1..n |->
                Point(ArcCoord(cx, rho, Rat(a0 * n + da * i, n)),
                      \* sin(theta) = cos(theta - pi/2)
                      ArcCoord(cy, rho, Rat((a0 - 2) * n + da * i, n)),
                      Rat(Get(start, "Z", 0) * n
                            + (Get(end, "Z", Get(start, "Z", 0)) - Get(start, "Z", 0)) * i, n),
                      Rat(Get(end, "A", Get(start, "A", 0)), 1),
                      Rat(Get(end, "B", Get(start, "B", 0)), 1),
                      Rat(Get(end, "C", Get(start, "C", 0)), 1))],
     dur |-> IF FeedOf(st) > 0
             THEN Seconds(da * da * rho[1] * SecondsPerMinute * SecondsPerMinute,
                          16 * rho[2] * FeedOf(st) * FeedOf(st), 1)
             ELSE ZeroDuration]

\* the sweep and the segment count of the arc from angle a0 to angle a1
ArcSwept(start, end, st, cw, cx, cy, rho, a0, a1) ==
    ArcPoints(start, end, st, cx, cy, rho, a0, Sweep(a0, a1, cw),
              ArcSegmentCount(Sweep(a0, a1, cw), rho))

\* the arc about the centre <<cx, cy>> from s = <<sx, sy>> to e = <<ex, ey>>;
\* its radius is math.hypot(sx - cx, sy - cy)
ArcAbout(start, end, st, cw, cx, cy, s, e) ==
    ArcSwept(start, end, st, cw, cx, cy,
             RAdd(RMul(RSub(s[1], cx), RSub(s[1], cx)), RMul(RSub(s[2], cy), RSub(s[2], cy))),
             Atan2(RSub(s[2], cy), RSub(s[1], cx)),
             Atan2(RSub(e[2], cy), RSub(e[1], cx)))

\* _circular_interpolate once the centre exists: (points, duration)
_circular_interpolate(start, end, params, st, cw) ==
    LET ctr == ArcCenter(start, end, params, cw)
    IN ArcAbout(start, end, st, cw, ctr[1], ctr[2],
                <<Rat(Get(start, "X", 0), 1), Rat(Get(start, "Y", 0), 1)>>,
                <<Rat(Get(end, "X", Get(start, "X", 0)), 1),
                  Rat(Get(end, "Y", Get(start, "Y", 0)), 1)>>)

\* mutant: state.update_axes(resolved) runs before the interpolation
MotionHandle_UpdateFirst(nd, st, nxt) ==
    LET n == NodePool[nd]
        interp_mode == InterpMode(n.g_code)
        start == st.axes
        absolute_mode == AbsoluteMode(st)
        resolved == resolve_target(st, TargetSpec(n.command_parameter), absolute_mode)
        params == Params(n.command_parameter)
    IN IF interp_mode = "None" THEN TerminalHandle(nd, st, nxt)
       ELSE IF interp_mode \in {"G01", "G00"}
            THEN LET r == _linear_interpolate(start, resolved, st)
                 IN Returned(TRUE, r.pts, <<r.dur>>, update_axes(st, resolved), nxt)
            ELSE LET msg == ArcCenterError(start, resolved, params)
                 IN IF msg # "" THEN Raised(msg, update_axes(st, resolved), nxt)
                    ELSE LET r == _circular_interpolate(start, resolved, params, st,
                                                        interp_mode = "G02")
                         IN Returned(TRUE, r.pts, <<r.dur>>, update_axes(st, resolved), nxt)

\* MotionHandler.handle
MotionHandle(nd, st, nxt) ==
    LET n == NodePool[nd]
        interp_mode == InterpMode(n.g_code)
        start == st.axes
        absolute_mode == AbsoluteMode(st)
        resolved == resolve_target(st, TargetSpec(n.command_parameter), absolute_mode)
        params == Params(n.command_parameter)
    IN IF interp_mode = "None" THEN TerminalHandle(nd, st, nxt)
       ELSE IF interp_mode \in {"G01", "G00"}
            THEN LET r == _linear_interpolate(start, resolved, st)
                 IN Returned(TRUE, r.pts, <<r.dur>>, update_axes(st, resolved), nxt)
            ELSE LET msg == ArcCenterError(start, resolved, params)
                 IN IF msg # "" THEN Raised(msg, st, nxt)
                    ELSE LET r == _circular_interpolate(start, resolved, params, st,
                                                        interp_mode = "G02")
                         IN Returned(TRUE, r.pts, <<r.dur>>, update_axes(st, resolved), nxt)

-----------------------------------------------------------------------------
(* The links in front of MotionHandler.  Their code is not part of the     *)
(* sources at hand; they are modelled from the specification.              *)

\* GCodeGroup0 (G28, G50), GCodeGroup2 (G96/G97), GCodeGroup5 (G94/G95/G98/
\* G99): a node carrying none of their codes is delegated unchanged
GCodeGroup0Handle(nd, st, nxt) == MotionHandle(nd, st, nxt)

GCodeGroup2Handle(nd, st, nxt) == GCodeGroup0Handle(nd, st, nxt)

GCodeGroup5Handle(nd, st, nxt) == GCodeGroup2Handle(nd, st, nxt)

\* the first GOTO token of loop_command, or <<>>
GotoOf(loop_command) ==
    LET idx == {i \in 1..Len(loop_command) : loop_command[i].op = "GOTO"}
    IN IF idx = {} THEN <<>>
       ELSE <<loop_command[CHOOSE i \in idx : \A j \in idx : i <= j].tag>>

\* ControlFlowHandler: GOTO N<k> sets the current node's next pointer to
\* label_map[k], an absent label is an error; then the node is delegated
ControlFlowHandle(nd, st, nxt, ctl) ==
    LET goto == GotoOf(NodePool[nd].loop_command)
    IN IF goto = <<>> THEN GCodeGroup5Handle(nd, st, nxt)
       ELSE LET k == _to_float(goto[1], 0)
            IN IF k \in DOMAIN ctl.n_map
               THEN GCodeGroup5Handle(nd, st, [nxt EXCEPT ![nd] = ctl.n_map[k]])
               ELSE Raised("GOTO target not found", st, nxt)

\* VariableHandler: a node without variable assignments or references is
\* passed through
VariableHandle(nd, st, nxt, ctl) == ControlFlowHandle(nd, st, nxt, ctl)

\* self._chain.handle(node, self._state)
ChainHandle(nd, st, nxt, ctl) == VariableHandle(nd, st, nxt, ctl)

-----------------------------------------------------------------------------
(* StatefulIsoTurnCanal *)

\* the linking loop: nodes[i]._next_ncCode = nodes[i + 1]
RECURSIVE LinkNext(_, _, _)
LinkNext(l, i, nxt) ==
    IF i >= Len(l) THEN nxt
    ELSE LinkNext(l, i + 1, [nxt EXCEPT ![l[i]] = l[i + 1]])

\* the linking loop: nodes[i + 1]._before_ncCode = nodes[i]
RECURSIVE LinkBefore(_, _, _)
LinkBefore(l, i, bef) ==
    IF i >= Len(l) THEN bef
    ELSE LinkBefore(l, i + 1, [bef EXCEPT ![l[i + 1]] = l[i]])

\* n_map: float(N) -> node, a later node overwrites an earlier one
RECURSIVE NMapFrom(_, _, _)
NMapFrom(l, i, m) ==
    IF i > Len(l) THEN m
    ELSE LET ps == NodePool[l[i]].command_parameter
             idx == {j \in 1..Len(ps) : ps[j][1] = "N"}
             nval == IF idx = {} THEN <<>>
                     ELSE <<ps[CHOOSE j \in idx : \A h \in idx : h <= j][2]>>
         IN NMapFrom(l, i + 1,
                IF nval # <<>> /\ nval[1] \in DOMAIN FloatOf
                THEN LET key == FloatOf[nval[1]]
                     IN [k \in DOMAIN m \cup {key} |-> IF k = key THEN l[i] ELSE m[k]]
                ELSE m)

NMap(l) == NMapFrom(l, 1, <<>>)

\* do_map / end_map: tag -> the nodes whose loop_command holds DO<tag> / END<tag>
RECURSIVE TagMapFrom(_, _, _, _)
TagMapFrom(l, op, i, m) ==
    IF i > Len(l) THEN m
    ELSE LET lc == NodePool[l[i]].loop_command
             tags == {lc[j].tag : j \in {h \in 1..Len(lc) : lc[h].op = op}}
         IN TagMapFrom(l, op, i + 1,
                [t \in DOMAIN m \cup tags |->
                    IF t \in tags THEN Append(Get(m, t, <<>>), l[i]) ELSE m[t]])

TagMap(l, op) == TagMapFrom(l, op, 1, <<>>)

\* mutant: the loop markers are not scanned
ControlTables_LabelsOnly(l) ==
    [n_map |-> NMap(l), do_map |-> <<>>, end_map |-> <<>>,
     nodes |-> l, loop_counters |-> <<>>]

\* the tables provided to the control handler at the start of a run
ControlTables(l) ==
    [n_map |-> NMap(l), do_map |-> TagMap(l, "DO"), end_map |-> TagMap(l, "END"),
     nodes |-> l, loop_counters |-> <<>>]

\* the control handler's loop_counters after a node: DO<tag> increments the
\* counter of its tag, END<tag> decrements it
RECURSIVE LoopCountersFrom(_, _, _)
LoopCountersFrom(lc, j, m) ==
    IF j > Len(lc) THEN m
    ELSE LET t == lc[j].tag
             d == IF lc[j].op = "DO" THEN 1 ELSE IF lc[j].op = "END" THEN -1 ELSE 0
         IN LoopCountersFrom(lc, j + 1,
                IF d = 0 THEN m
                ELSE [k \in DOMAIN m \cup {t} |->
                         IF k = t THEN Get(m, t, 0) + d ELSE m[k]])

LoopCounters(nd, ctl) ==
    [ctl EXCEPT !.loop_counters = LoopCountersFrom(NodePool[nd].loop_command, 1, @)]

\* max_steps = max(10000, len(self._nodes) * 100)
MaxSteps(l) == Max(MaxStepsFloor, Len(l) * StepsPerNode)

\* mutant: the loop without its step bound
LoopGuard_Unbounded(nd, st, ms) == nd # "None"

\* while node is not None and steps < max_steps
LoopGuard(nd, st, ms) == nd # "None" /\ st < ms

\* mutant: the result is appended whether or not it has points
AppendResult_Always(tp, r) ==
    Append(tp, <<r.pts, IF r.dur = <<>> THEN ZeroDuration ELSE r.dur[1]>>)

\* mutant: the result is put in front of the buffer
AppendResult_Front(tp, r) ==
    IF r.has
    THEN <<(<<r.pts, IF r.dur = <<>> THEN ZeroDuration ELSE r.dur[1]>>)>> \o tp
    ELSE tp

\* if pts is not None: self._tool_path.append((pts, dur or 0.0))
AppendResult(tp, r) ==
    IF r.has
    THEN Append(tp, <<r.pts, IF r.dur = <<>> THEN ZeroDuration ELSE r.dur[1]>>)
    ELSE tp

\* mutant: the buffer of the previous run is kept
NewToolPath_Kept(tp) == tp

\* self._tool_path = []
NewToolPath(tp) == <<>>

EmptyControl == ControlTables(<<>>)

\* the fields of a canal as its constructor leaves them
InitCanal(st) ==
    /\ state = st
    /\ nodes = <<>>
    /\ tool_path = <<>>
    /\ next_ncCode = [n \in NodeIds |-> "None"]
    /\ before_ncCode = [n \in NodeIds |-> "None"]
    /\ control = EmptyControl
    /\ pc = "idle"
    /\ node = "None"
    /\ steps = 0
    /\ max_steps = 0
    /\ error = ""
    /\ calls = 0
    /\ emitted = 0
    /\ run_start = st

\* a canal on its own: no controller, no CNCState objects besides its own
InitWith(st) ==
    /\ InitCanal(st)
    /\ canals = <<>>
    /\ sel = 0
    /\ history = <<>>
    /\ reply = <<>>
    /\ heap = <<>>

\* StatefulIsoTurnCanal(name): init_state or CNCState()
Init == InitWith(DefaultState)

\* run_nc_code_list, up to the loop: store the list, clear the tool path,
\* link the nodes, build and hand over the lookup tables
RunNcCodeList(l) ==
    /\ pc = "idle"
    /\ nodes' = l
    /\ tool_path' = NewToolPath(tool_path)
    /\ next_ncCode' = LinkNext(l, 1, next_ncCode)
    /\ before_ncCode' = LinkBefore(l, 1, before_ncCode)
    /\ control' = ControlTables(l)
    /\ node' = IF Len(l) > 0 THEN l[1] ELSE "None"
    /\ max_steps' = MaxSteps(l)
    /\ steps' = 0
    /\ pc' = "running"
    /\ error' = ""
    /\ calls' = 0
    /\ emitted' = 0
    /\ run_start' = state
    /\ UNCHANGED state
    /\ UNCHANGED aux

\* mutant: the next pointer is read before the chain handles the node
Step_ReadEarly ==
    /\ pc = "running"
    /\ LoopGuard(node, steps, max_steps)
    /\ LET r == ChainHandle(node, state, next_ncCode, control)
           next_node == next_ncCode[node]
       IN /\ ~r.raised
          /\ state' = r.state
          /\ next_ncCode' = r.next_ncCode
          /\ tool_path' = AppendResult(tool_path, r)
          /\ calls' = calls + 1
          /\ emitted' = IF r.has THEN emitted + 1 ELSE emitted
          /\ IF next_node = node
             THEN \* break: the method returns
                  /\ pc' = "returned"
                  /\ UNCHANGED <<node, steps>>
             ELSE /\ node' = next_node
                  /\ steps' = steps + 1
                  /\ pc' = "running"
    /\ control' = LoopCounters(node, control)
    /\ UNCHANGED <<nodes, before_ncCode, max_steps, error, run_start>>
    /\ UNCHANGED aux

\* one iteration of the loop in which the chain returns
Step ==
    /\ pc = "running"
    /\ LoopGuard(node, steps, max_steps)
    /\ LET r == ChainHandle(node, state, next_ncCode, control)
           next_node == r.next_ncCode[node]
       IN /\ ~r.raised
          /\ state' = r.state
          /\ next_ncCode' = r.next_ncCode
          /\ tool_path' = AppendResult(tool_path, r)
          /\ calls' = calls + 1
          /\ emitted' = IF r.has THEN emitted + 1 ELSE emitted
          /\ IF next_node = node
             THEN \* break: the method returns
                  /\ pc' = "returned"
                  /\ UNCHANGED <<node, steps>>
             ELSE /\ node' = next_node
                  /\ steps' = steps + 1
                  /\ pc' = "running"
    /\ control' = LoopCounters(node, control)
    /\ UNCHANGED <<nodes, before_ncCode, max_steps, error, run_start>>
    /\ UNCHANGED aux

\* one iteration of the loop in which a handler raises: the exception leaves
\* run_nc_code_list
StepRaise ==
    /\ pc = "running"
    /\ LoopGuard(node, steps, max_steps)
    /\ LET r == ChainHandle(node, state, next_ncCode, control)
       IN /\ r.raised
          /\ state' = r.state
          /\ next_ncCode' = r.next_ncCode
          /\ error' = r.message
    /\ calls' = calls + 1
    /\ pc' = "raised"
    /\ UNCHANGED <<nodes, tool_path, before_ncCode, control, node, steps,
                   max_steps, emitted, run_start>>
    /\ UNCHANGED aux

\* the loop condition fails: the method returns
Return ==
    /\ pc = "running"
    /\ ~LoopGuard(node, steps, max_steps)
    /\ pc' = "returned"
    /\ UNCHANGED <<state, nodes, tool_path, next_ncCode, before_ncCode, control,
                   node, steps, max_steps, error, calls, emitted, run_start>>
    /\ UNCHANGED aux

Next ==
    \/ \E l \in Programs : RunNcCodeList(l)
    \/ Step
    \/ StepRaise
    \/ Return

Spec == Init /\ [][Next]_vars

\* a fresh canal running the programs with jumps
NextLoop ==
    \/ \E l \in JumpPrograms \cup LoopPrograms : RunNcCodeList(l)
    \/ Step
    \/ StepRaise
    \/ Return

SpecLoop == Init /\ [][NextLoop]_vars

\* canals constructed with an init_state, running straight-line programs
InitStates ==
    {CNCState(ax, d, f) :
        ax \in {DefaultAxes, [a \in {"X", "Y", "Z"} |-> IF a = "X" THEN 2 ELSE IF a = "Z" THEN 1 ELSE 0]},
        d \in {"None", "G90", "G91"},
        f \in {<<>>, <<300>>}}

InitMotion == \E st \in InitStates : InitWith(st)

NextMotion ==
    \/ \E l \in MotionPrograms : RunNcCodeList(l)
    \/ Step
    \/ StepRaise
    \/ Return

SpecMotion == InitMotion /\ [][NextMotion]_vars

\* canals at the origin running the arc programs
InitArc ==
    \E d \in {"None", "G91"}, f \in {<<>>, <<300>>} : InitWith(CNCState(DefaultAxes, d, f))

NextArc ==
    \/ \E l \in ArcPrograms : RunNcCodeList(l)
    \/ Step
    \/ StepRaise
    \/ Return

SpecArc == InitArc /\ [][NextArc]_vars

\* the values state.feed_rate may have: unset, zero, negative, positive
FeedRates == {<<>>, <<0>>, <<-60>>, <<300>>}

\* canals at the origin with any feed rate, running the arc programs
InitFeed == \E f \in FeedRates : InitWith(CNCState(DefaultAxes, "None", f))

SpecFeed == InitFeed /\ [][NextArc]_vars

\* the plane codes modal_groups["plane"] may hold: XY, ZX, YZ
Planes == {"G17", "G18", "G19"}

\* CNCState() after set_modal("plane", plane)
CNCStateInPlane(plane) ==
    [DefaultState EXCEPT !.modal_groups = [distance |-> "None", plane |-> plane]]

\* canals at the origin with a plane selected, running the arc programs
InitPlane == \E p \in Planes : InitWith(CNCStateInPlane(p))

SpecPlane == InitPlane /\ [][NextArc]_vars

-----------------------------------------------------------------------------
(* StatefulIsoTurnNCControl.  Its methods are called one at a time; the     *)
(* canal a call selects has its fields in state, nodes, tool_path, control, *)
(* pc and error, the other canals are kept in canals.                       *)

CanalCount == 3                 \* count_of_canals
MaxCalls == 3                   \* run_nc_code_list calls made on the controller

\* the lists handed to the controller; they share node objects
CtlPrograms ==
    { <<"lin_x5">>, <<"lin_x5", "lin_xy">>, <<"lin_xy", "goto_4">> }

\* StatefulIsoTurnCanal(name, init_state), as a value
CanalOf(st) ==
    [state |-> st, nodes |-> <<>>, tool_path |-> <<>>, control |-> EmptyControl,
     pc |-> "idle", error |-> ""]

\* the canal whose call is the latest
Current ==
    [state |-> state, nodes |-> nodes, tool_path |-> tool_path, control |-> control,
     pc |-> pc, error |-> error]

\* self._canals[c]
View(c) == IF c = sel THEN Current ELSE canals[c]

\* mutant: the index is taken to count from 0
SelectCanal_FromZero(cs, c) == IF c + 1 \in DOMAIN cs THEN <<c + 1>> ELSE <<>>

\* self._canals.get(canal): <<>> for None
SelectCanal(cs, c) == IF c \in DOMAIN cs THEN <<c>> ELSE <<>>

RECURSIVE CallsUpTo(_)
CallsUpTo(c) == IF c = 0 THEN 0 ELSE Len(history[c]) + CallsUpTo(c - 1)

\* no call is in progress
NoCall == pc \in {"idle", "returned", "raised"}

Reply(op, c, raised, message, value) ==
    [op |-> op, canal |-> c, raised |-> raised, message |-> message, value |-> value]

\* StatefulIsoTurnNCControl(count_of_canals): canals 1..N, each with its own
\* CNCState()
InitCtl ==
    /\ InitCanal(DefaultState)
    /\ canals = [c \in 1..CanalCount |-> CanalOf(DefaultState)]
    /\ sel = 1
    /\ history = [c \in 1..CanalCount |-> <<>>]
    /\ reply = Reply("none", 0, FALSE, "", <<>>)
    /\ heap = <<>>

\* StatefulIsoTurnNCControl.run_nc_code_list(l, c): IndexError for a canal
\* that is not configured, else the canal's run_nc_code_list up to its loop
CtlRunNcCodeList(l, c) ==
    /\ NoCall
    /\ IF SelectCanal(canals, c) = <<>>
       THEN /\ reply' = Reply("run_nc_code_list", c, TRUE, "IndexError", <<>>)
            /\ UNCHANGED <<state, nodes, tool_path, next_ncCode, before_ncCode,
                           control, pc, node, steps, max_steps, error, calls,
                           emitted, run_start, canals, sel, history, heap>>
       ELSE LET k == SelectCanal(canals, c)[1]
            IN /\ CallsUpTo(CanalCount) < MaxCalls
               /\ canals' = [canals EXCEPT ![sel] = Current]
               /\ sel' = k
               /\ history' = [history EXCEPT ![k] = Append(@, l)]
               /\ reply' = Reply("run_nc_code_list", c, FALSE, "", <<>>)
               /\ state' = View(k).state
               /\ run_start' = View(k).state
               /\ nodes' = l
               /\ tool_path' = NewToolPath(tool_path)
               /\ next_ncCode' = LinkNext(l, 1, next_ncCode)
               /\ before_ncCode' = LinkBefore(l, 1, before_ncCode)
               /\ control' = ControlTables(l)
               /\ node' = IF Len(l) > 0 THEN l[1] ELSE "None"
               /\ max_steps' = MaxSteps(l)
               /\ steps' = 0
               /\ pc' = "running"
               /\ error' = ""
               /\ calls' = 0
               /\ emitted' = 0
               /\ UNCHANGED heap

\* StatefulIsoTurnNCControl.get_tool_path(c)
CtlGetToolPath(c) ==
    /\ NoCall
    /\ reply' = Reply("get_tool_path", c, FALSE, "",
                      IF SelectCanal(canals, c) = <<>> THEN <<>>
                      ELSE View(SelectCanal(canals, c)[1]).tool_path)
    /\ UNCHANGED <<state, nodes, tool_path, next_ncCode, before_ncCode, control, pc,
                   node, steps, max_steps, error, calls, emitted, run_start,
                   canals, sel, history, heap>>

\* StatefulIsoTurnNCControl.get_exected_nodes(c)
CtlGetExectedNodes(c) ==
    /\ NoCall
    /\ reply' = Reply("get_exected_nodes", c, FALSE, "",
                      IF SelectCanal(canals, c) = <<>> THEN <<>>
                      ELSE View(SelectCanal(canals, c)[1]).nodes)
    /\ UNCHANGED <<state, nodes, tool_path, next_ncCode, before_ncCode, control, pc,
                   node, steps, max_steps, error, calls, emitted, run_start,
                   canals, sel, history, heap>>

NextCtl ==
    \/ \E l \in CtlPrograms, c \in 0..(CanalCount + 1) : CtlRunNcCodeList(l, c)
    \/ \E c \in 0..(CanalCount + 1) : CtlGetToolPath(c)
    \/ \E c \in 0..(CanalCount + 1) : CtlGetExectedNodes(c)
    \/ Step
    \/ StepRaise
    \/ Return

SpecCtl == InitCtl /\ [][NextCtl]_vars

\* Successive runs on the first canal of programs with labels and loop markers
TablePrograms ==
    { <<"label_1", "do_1", "lin_x5", "end_1">>,
      <<"do_1_lin", "label_2_lin", "do_1">>,
      <<"label_2_lin", "label_1", "end_1">>,
      <<"label_1", "goto_4">>,
      <<"lin_xy">> }

NextTables ==
    \/ \E l \in TablePrograms : CtlRunNcCodeList(l, 1)
    \/ Step
    \/ StepRaise
    \/ Return

SpecTables == InitCtl /\ [][NextTables]_vars

-----------------------------------------------------------------------------
(* Engine loop: step bound, tool-path buffer, errors *)

\* C1: a run makes at most max(10000, 100 * len(nodes)) invocations of the
\* handler chain, whatever cycles the next pointers form; while the loop is
\* running every iteration that does not end the run counts as one more
\* invocation, so the run ends after at most that many.
C1_StepBound ==
    /\ [](/\ calls <= Max(10000, 100 * Len(nodes))
          /\ pc = "running" => steps = calls)
    /\ [][pc = "running" =>
            \/ pc' = "running" /\ calls' = calls + 1
            \/ pc' \in {"returned", "raised"}]_vars

\* a run whose next pointers form a cycle was cut by the step bound
C1_Witness == pc = "returned" /\ calls = 10000 /\ steps = 10000 /\ node # "None"

\* C2: a run that stops because the step bound is reached, with a node still
\* to execute, ends in an error visible to the caller.
C2_BoundsErrorSignalled ==
    (pc \in {"returned", "raised"} /\ steps >= max_steps /\ node # "None")
        => pc = "raised"

\* C3: after the run returns, the tool path has as many entries as there were
\* chain invocations that returned non-null points (a node executed several
\* times counts once per execution), and at no moment more.
C3_PathLengthIsEmissionCount ==
    /\ Len(tool_path) <= emitted
    /\ pc = "returned" => Len(tool_path) = emitted

\* a returned run in which some invocations emitted and some did not
C3_Witness == pc = "returned" /\ emitted >= 1 /\ calls > emitted

\* C4: within a run every loop iteration leaves the buffer as it was or
\* appends exactly the result of the node just handled at its end, so the
\* buffer at any step is a prefix of the buffer at every later step and its
\* entries are in execution order.
C4_AppendOnlyInExecutionOrder ==
    [][pc = "running" =>
        /\ IsPrefix(tool_path, tool_path')
        /\ IF LoopGuard(node, steps, max_steps)
           THEN LET r == ChainHandle(node, state, next_ncCode, control)
                IN tool_path' =
                     IF ~r.raised /\ r.has
                     THEN Append(tool_path, <<r.pts, IF r.dur = <<>> THEN ZeroDuration ELSE r.dur[1]>>)
                     ELSE tool_path
           ELSE tool_path' = tool_path]_vars

\* a backward jump has made the run execute a node again and emit its
\* points a second time
C4_Witness == pc = "running" /\ Len(tool_path) >= 2 /\ calls > Len(nodes)

\* C5: when a handler raises, the run ends with that error and the tool path
\* read afterwards holds no entry of the failed run.
C5_FailedRunDiscardsPath == pc = "raised" => tool_path = <<>>

-----------------------------------------------------------------------------
(* MotionHandler: coordinate resolution and linear moves *)

IsLinear(nd) == InterpMode(NodePool[nd].g_code) \in {"G00", "G01"}

\* the axes a node's parameters refer to (U, V, W refer to X, Y, Z)
Referenced(nd) == DOMAIN TargetSpec(NodePool[nd].command_parameter)

\* the loop is about to hand a linear-move node to the chain
AtLinearMove == pc = "running" /\ LoopGuard(node, steps, max_steps) /\ IsLinear(node)

\* C6: a linear move leaves every axis the node refers to at its target (the
\* parsed value in absolute mode, the current position plus the parsed value
\* under G91) and every other axis as it was.
C6_LinearMoveFrame ==
    [][AtLinearMove =>
        LET spec == TargetSpec(NodePool[node].command_parameter)
            B(ax) == IF state.modal_groups.distance = "G91"
                     THEN Get(state.axes, ax, 0) + spec[ax]
                     ELSE spec[ax]
        IN /\ DOMAIN state'.axes = DOMAIN state.axes \cup Referenced(node)
           /\ \A ax \in Referenced(node) : state'.axes[ax] = B(ax)
           /\ \A ax \in DOMAIN state.axes \ Referenced(node) :
                state'.axes[ax] = state.axes[ax]]_vars

\* an incremental move from a non-zero position has been applied: X and Y
\* moved by the deltas, Z kept its value
C6_Witness ==
    /\ pc = "returned" /\ nodes = <<"lin_xy">>
    /\ run_start.modal_groups.distance = "G91" /\ run_start.axes["Z"] = 1
    /\ state.axes = [a \in {"X", "Y", "Z"} |-> IF a = "X" THEN 5 ELSE IF a = "Y" THEN 4 ELSE 1]

\* a G0/G1 node that names only X, Y, Z (besides N and F) with valid numbers
\* and carries no G91
IsAbsLinearXYZ(nd) ==
    LET n == NodePool[nd]
    IN /\ IsLinear(nd)
       /\ \A i \in 1..Len(n.g_code) : Upper(n.g_code[i]) # "G91"
       /\ \A i \in 1..Len(n.command_parameter) :
            /\ n.command_parameter[i][1] \in {"X", "Y", "Z", "N", "F"}
            /\ n.command_parameter[i][2] \in DOMAIN FloatOf

\* the literal a node gives for an axis, or <<>>
Named(nd, ax) ==
    LET ps == NodePool[nd].command_parameter
        idx == {i \in 1..Len(ps) : ps[i][1] = ax}
    IN IF idx = {} THEN <<>> ELSE <<ps[CHOOSE i \in idx : \A j \in idx : j <= i][2]>>

\* the target of node i of program l started at axes a0: a named axis takes
\* the number written, an unnamed one the value it had after node i - 1
RECURSIVE TargetOf(_, _, _, _)
TargetOf(l, i, a0, ax) ==
    IF i = 0 THEN a0[ax]
    ELSE IF Named(l[i], ax) # <<>> THEN FloatOf[Named(l[i], ax)[1]]
         ELSE TargetOf(l, i - 1, a0, ax)

LastPoint(entry) == entry[1][Len(entry[1])]

\* C7: a program of k consecutive G0/G1 nodes run in absolute mode returns
\* with exactly k entries, and the last point of entry i is the target of
\* node i in X, Y and Z.
C7_LinearProgramEndpoints ==
    (/\ pc = "returned"
     /\ run_start.modal_groups.distance # "G91"
     /\ \A i \in 1..Len(nodes) : IsAbsLinearXYZ(nodes[i]))
    => /\ Len(tool_path) = Len(nodes)
       /\ \A i \in 1..Len(nodes) :
            /\ LastPoint(tool_path[i])[1] = <<TargetOf(nodes, i, run_start.axes, "X"), 1>>
            /\ LastPoint(tool_path[i])[2] = <<TargetOf(nodes, i, run_start.axes, "Y"), 1>>
            /\ LastPoint(tool_path[i])[3] = <<TargetOf(nodes, i, run_start.axes, "Z"), 1>>

\* the two-line program G1 X1.0 Y2.0 Z0.0 F100 / G1 X3 Y4 has returned with
\* two entries, the second ending at (3, 4, 0)
C7_Witness ==
    /\ pc = "returned" /\ nodes = <<"lin_xyz", "lin_xy">>
    /\ run_start.modal_groups.distance = "None"
    /\ Len(tool_path) = 2
    /\ LastPoint(tool_path[2])[1] = <<3, 1>>
    /\ LastPoint(tool_path[2])[2] = <<4, 1>>
    /\ LastPoint(tool_path[2])[3] = <<0, 1>>

\* C8: a node that carries G91 switches to incremental distance mode and the
\* mode stays active: from X = 0, `G91 G1 X5 F300` then `G1 X5` ends with
\* state.axes["X"] = 10.
C8_G91OnNodeStaysActive ==
    (pc = "returned" /\ nodes = <<"g91_x5", "lin_x5">> /\ run_start = DefaultState)
        => state.axes["X"] = 10

\* the sum, over the nodes of l, of the delta each gives for axis ax
RECURSIVE DeltaSum(_, _, _)
DeltaSum(l, i, ax) ==
    IF i = 0 THEN 0
    ELSE DeltaSum(l, i - 1, ax) + Get(TargetSpec(NodePool[l[i]].command_parameter), ax, 0)

AllReferenced(l) == UNION {Referenced(l[i]) : i \in 1..Len(l)}

\* C9: a program of G91 linear moves whose deltas sum to D leaves the axes a
\* single G90 linear move to start + D leaves, from the same start state.
C9_G91SumEqualsG90Target ==
    (/\ pc = "returned"
     /\ run_start.modal_groups.distance = "G91"
     /\ Len(nodes) >= 1
     /\ \A i \in 1..Len(nodes) : IsLinear(nodes[i]))
    => LET g90_start == [run_start EXCEPT !.modal_groups.distance = "G90"]
           g90_spec == [ax \in AllReferenced(nodes) |->
                          Get(run_start.axes, ax, 0) + DeltaSum(nodes, Len(nodes), ax)]
           g90_end == update_axes(g90_start,
                          resolve_target(g90_start, g90_spec, AbsoluteMode(g90_start)))
       IN state.axes = g90_end.axes

\* two incremental moves have been applied to a non-zero start position
C9_Witness ==
    /\ pc = "returned" /\ nodes = <<"lin_xy", "rap_uw">>
    /\ run_start.modal_groups.distance = "G91" /\ run_start.axes["X"] = 2
    /\ state.axes["X"] = 8 /\ state.axes["Y"] = 4 /\ state.axes["Z"] = 0

\* a node that gives U (V, W) and not X (Y, Z) itself
GivesOnlyIncrement(nd, inc, abs) ==
    LET keys == {Upper(NodePool[nd].command_parameter[i][1]) :
                    i \in 1..Len(NodePool[nd].command_parameter)}
    IN inc \in keys /\ abs \notin keys

IncrementOf(nd, inc) ==
    LET ps == NodePool[nd].command_parameter
    IN _to_float(ps[CHOOSE i \in 1..Len(ps) : Upper(ps[i][1]) = inc][2], 0)

\* C10: U, V, W are increments on the current position whatever the distance
\* modal: a linear move with U = d from X = x0 ends at X = x0 + d (likewise V
\* on Y, W on Z).
C10_UVWAlwaysIncremental ==
    [][AtLinearMove =>
        /\ GivesOnlyIncrement(node, "U", "X") =>
             state'.axes["X"] = state.axes["X"] + IncrementOf(node, "U")
        /\ GivesOnlyIncrement(node, "V", "Y") =>
             state'.axes["Y"] = state.axes["Y"] + IncrementOf(node, "V")
        /\ GivesOnlyIncrement(node, "W", "Z") =>
             state'.axes["Z"] = state.axes["Z"] + IncrementOf(node, "W")]_vars

-----------------------------------------------------------------------------
(* CNCState objects.  A CNCState is an object whose mapping fields refer   *)
(* to mapping objects of their own; heap.store holds the mapping objects   *)
(* (a reference is an index into it), heap.states the CNCState objects,    *)
(* heap.last the call made last and the object it was made on.             *)

MaxStates == 2                  \* CNCState objects alive: the first and its clones
MaxOps == 2                     \* mutating calls made on them

\* the fields of the dataclass that hold a dict or a list
RefFields ==
    <<"modal_groups", "axes", "offsets", "axis_multipliers", "axis_override_feeds",
      "parameters", "dddp_set", "loop_command", "extra">>

\* the fields that hold a scalar
ScalarFields ==
    {"feed_rate", "spindle_speed", "tool_radius", "tool_quadrant", "line_number"}

FieldIndex(f) == CHOOSE i \in 1..Len(RefFields) : RefFields[i] = f

\* CNCState(): the default factories make one new object per field
NewObjects ==
    [i \in 1..Len(RefFields) |-> IF RefFields[i] = "axes" THEN DefaultAxes ELSE <<>>]

NewStateAt(base) ==
    [f \in {RefFields[i] : i \in 1..Len(RefFields)} \cup ScalarFields |->
        IF f \in ScalarFields THEN 0 ELSE base + FieldIndex(f)]

\* the mapping objects an object of state h refers to: its fields and what
\* the values of extra refer to
Nested(hp, h) == {hp.store[hp.states[h].extra][k] : k \in DOMAIN hp.store[hp.states[h].extra]}

Reachable(hp, h) == {hp.states[h][RefFields[i]] : i \in 1..Len(RefFields)} \cup Nested(hp, h)

\* the value of state h, field by field, every reference followed
Deref(hp, h) ==
    [f \in DOMAIN hp.states[h] |->
        IF f \in ScalarFields THEN <<hp.states[h][f]>>
        ELSE IF f = "extra"
             THEN [k \in DOMAIN hp.store[hp.states[h].extra] |->
                        hp.store[hp.store[hp.states[h].extra][k]]]
             ELSE hp.store[hp.states[h][f]]]

\* mutant: the mappings are copied, the objects inside extra are not
clone_OneLevel(hp, h) ==
    LET base == Len(hp.store)
    IN [hp EXCEPT !.store = hp.store \o [i \in 1..Len(RefFields) |->
                                            hp.store[hp.states[h][RefFields[i]]]],
                  !.states = Append(hp.states,
                      [f \in DOMAIN hp.states[h] |->
                          IF f \in ScalarFields THEN hp.states[h][f]
                          ELSE base + FieldIndex(f)]),
                  !.last = [op |-> "clone", on |-> h]]

\* clone(): deepcopy(self), every object reachable from self is copied once
\* and the copy refers to the copies
clone(hp, h) ==
    LET old == Reachable(hp, h)
        base == Len(hp.store)
        new(r) == base + Cardinality({x \in old : x <= r})
        nth(i) == CHOOSE r \in old : new(r) = base + i
        copy(r) == IF r = hp.states[h].extra
                   THEN [k \in DOMAIN hp.store[r] |-> new(hp.store[r][k])]
                   ELSE hp.store[r]
    IN [hp EXCEPT !.store = hp.store \o [i \in 1..Cardinality(old) |-> copy(nth(i))],
                  !.states = Append(hp.states,
                      [f \in DOMAIN hp.states[h] |->
                          IF f \in ScalarFields THEN hp.states[h][f]
                          ELSE new(hp.states[h][f])]),
                  !.last = [op |-> "clone", on |-> h]]

\* self.<field>[k] = v
PutItem(hp, h, f, k, v, op) ==
    LET r == hp.states[h][f]
    IN [hp EXCEPT !.store[r] = [x \in DOMAIN hp.store[r] \cup {k} |->
                                    IF x = k THEN v ELSE hp.store[r][x]],
                  !.last = [op |-> op, on |-> h],
                  !.ops = hp.ops + 1]

\* set_axis(name, value)
set_axis(hp, h, name, value) == PutItem(hp, h, "axes", name, value, "set_axis")

\* update_axes(updates): set_axis for every item
RECURSIVE update_axes_obj(_, _, _)
update_axes_obj(hp, h, updates) ==
    IF Len(updates) = 0 THEN [hp EXCEPT !.last = [op |-> "update_axes", on |-> h]]
    ELSE update_axes_obj(
            [set_axis(hp, h, updates[1][1], updates[1][2]) EXCEPT !.ops = hp.ops],
            h, Tail(updates))

\* set_modal(group, code)
set_modal(hp, h, group, code) == PutItem(hp, h, "modal_groups", group, code, "set_modal")

\* set_parameter(name, value)
set_parameter(hp, h, name, value) == PutItem(hp, h, "parameters", name, value, "set_parameter")

\* self.extra[k] = {}: a new object, referred to from extra
set_extra(hp, h, k) ==
    [PutItem(hp, h, "extra", k, Len(hp.store) + 1, "set_extra")
        EXCEPT !.store = Append(@, <<>>)]

\* self.extra[k][key] = v
set_nested(hp, h, k, key, v) ==
    LET r == hp.store[hp.states[h].extra][k]
    IN [hp EXCEPT !.store[r] = [x \in DOMAIN hp.store[r] \cup {key} |->
                                    IF x = key THEN v ELSE hp.store[r][x]],
                  !.last = [op |-> "set_nested", on |-> h],
                  !.ops = hp.ops + 1]

\* self.loop_command.append(tok)
append_loop_command(hp, h, tok) ==
    [hp EXCEPT !.store[hp.states[h].loop_command] = Append(@, tok),
               !.last = [op |-> "loop_command", on |-> h],
               !.ops = hp.ops + 1]

\* self.<scalar field> = v
set_scalar(hp, h, f, v) ==
    [hp EXCEPT !.states[h][f] = v,
               !.last = [op |-> "set_scalar", on |-> h],
               !.ops = hp.ops + 1]

Handles == DOMAIN heap.states
MayCall == heap.ops < MaxOps
Canal0 == <<state, nodes, tool_path, next_ncCode, before_ncCode, control, pc, node,
            steps, max_steps, error, calls, emitted, run_start, canals, sel, history, reply>>

InitClone ==
    /\ InitCanal(DefaultState)
    /\ canals = <<>> /\ sel = 0 /\ history = <<>> /\ reply = <<>>
    /\ heap = [store |-> NewObjects, states |-> <<NewStateAt(0)>>,
               last |-> [op |-> "new", on |-> 1], ops |-> 0]

CloneCall(h) ==
    /\ Len(heap.states) < MaxStates
    /\ heap' = clone(heap, h)
    /\ UNCHANGED Canal0

SetAxis(h, name, value) ==
    /\ MayCall /\ heap' = set_axis(heap, h, name, value) /\ UNCHANGED Canal0

UpdateAxes(h, updates) ==
    /\ MayCall
    /\ heap' = [update_axes_obj(heap, h, updates) EXCEPT !.ops = heap.ops + 1]
    /\ UNCHANGED Canal0

SetModal(h, group, code) ==
    /\ MayCall /\ heap' = set_modal(heap, h, group, code) /\ UNCHANGED Canal0

SetParameter(h, name, value) ==
    /\ MayCall /\ heap' = set_parameter(heap, h, name, value) /\ UNCHANGED Canal0

SetItem(h, f, k, v) ==
    /\ MayCall /\ heap' = PutItem(heap, h, f, k, v, "set_item") /\ UNCHANGED Canal0

SetExtra(h, k) ==
    /\ MayCall /\ heap' = set_extra(heap, h, k) /\ UNCHANGED Canal0

SetNested(h, k, key, v) ==
    /\ MayCall
    /\ k \in DOMAIN heap.store[heap.states[h].extra]
    /\ heap' = set_nested(heap, h, k, key, v)
    /\ UNCHANGED Canal0

AppendLoopCommand(h, tok) ==
    /\ MayCall /\ heap' = append_loop_command(heap, h, tok) /\ UNCHANGED Canal0

SetScalar(h, f, v) ==
    /\ MayCall /\ heap' = set_scalar(heap, h, f, v) /\ UNCHANGED Canal0

NextClone ==
    \/ \E h \in Handles : CloneCall(h)
    \/ \E h \in Handles, name \in {"X", "A"} : SetAxis(h, name, 1)
    \/ \E h \in Handles : UpdateAxes(h, << <<"X", 2>>, <<"Y", 2>> >>)
    \/ \E h \in Handles : SetModal(h, "distance", "G91")
    \/ \E h \in Handles : SetParameter(h, "#1", 1)
    \/ \E h \in Handles :
            \E f \in {"offsets", "axis_multipliers", "axis_override_feeds", "dddp_set"} :
                SetItem(h, f, "X", 1)
    \/ \E h \in Handles : SetExtra(h, "polar")
    \/ \E h \in Handles : SetNested(h, "polar", "axis", 1)
    \/ \E h \in Handles : AppendLoopCommand(h, "DO1")
    \/ \E h \in Handles, f \in ScalarFields : SetScalar(h, f, 1)

SpecClone == InitClone /\ [][NextClone]_vars

-----------------------------------------------------------------------------
\* C11: determinism.  Two canals that each ran the same list of node objects
\* as their first run, each from a fresh CNCState, end with identical tool
\* paths, identical final state and the same outcome.
Finished(c) == View(c).pc \in {"returned", "raised"}

C11_FreshRunsAgree ==
    \A i, j \in DOMAIN canals :
        (/\ Len(history[i]) = 1
         /\ history[j] = history[i]
         /\ Finished(i)
         /\ Finished(j))
        => /\ View(i).tool_path = View(j).tool_path
           /\ View(i).state = View(j).state
           /\ View(i).pc = View(j).pc

\* C12: canals are independent.  Whatever calls were made on the other
\* canals, a canal that has finished its runs holds the tool path, the state
\* and the outcome it would hold had it made the same runs alone, on node
\* objects no other canal ever touched.
RECURSIVE AloneFrom(_, _, _, _, _, _, _)
AloneFrom(nd, st, nxt, ctl, tp, k, ms) ==
    IF ~LoopGuard(nd, k, ms)
    THEN [tool_path |-> tp, state |-> st, pc |-> "returned", next_ncCode |-> nxt]
    ELSE LET r == ChainHandle(nd, st, nxt, ctl)
         IN IF r.raised
            THEN [tool_path |-> tp, state |-> r.state, pc |-> "raised",
                  next_ncCode |-> r.next_ncCode]
            ELSE IF r.next_ncCode[nd] = nd
                 THEN [tool_path |-> AppendResult(tp, r), state |-> r.state,
                       pc |-> "returned", next_ncCode |-> r.next_ncCode]
                 ELSE AloneFrom(r.next_ncCode[nd], r.state, r.next_ncCode, ctl,
                                AppendResult(tp, r), k + 1, ms)

RECURSIVE AloneRuns(_, _, _)
AloneRuns(hist, st, nxt) ==
    LET l == hist[1]
        run == AloneFrom(IF Len(l) > 0 THEN l[1] ELSE "None", st, LinkNext(l, 1, nxt),
                         ControlTables(l), <<>>, 0, MaxSteps(l))
    IN IF Len(hist) = 1 THEN run
       ELSE AloneRuns(Tail(hist), run.state, run.next_ncCode)

Alone(c) == AloneRuns(history[c], DefaultState, [n \in NodeIds |-> "None"])

C12_CanalsIndependent ==
    \A c \in DOMAIN canals :
        (Len(history[c]) >= 1 /\ Finished(c))
        => /\ View(c).tool_path = Alone(c).tool_path
           /\ View(c).state = Alone(c).state
           /\ View(c).pc = Alone(c).pc

C14_CloneIndependent ==
    /\ [](\A g, h \in Handles : g # h => Reachable(heap, g) \cap Reachable(heap, h) = {})
    /\ [][heap' # heap =>
            /\ heap'.last.op = "clone" =>
                    /\ Deref(heap', Len(heap'.states)) = Deref(heap, heap'.last.on)
                    /\ Deref(heap', heap'.last.on) = Deref(heap, heap'.last.on)
            /\ \A h \in Handles : h # heap'.last.on => Deref(heap', h) = Deref(heap, h)]_vars

\* a clone made of an object that holds a nested mapping, then changed in it
C14_Witness ==
    /\ Len(heap.states) = 2
    /\ heap.last.op = "set_nested"
    /\ \A h \in Handles : "polar" \in DOMAIN heap.store[heap.states[h].extra]
    /\ Deref(heap, 1) # Deref(heap, 2)

\* the squared XYZ distance between two axis mappings
DistSq(a, b) ==
    (Get(a, "X", 0) - Get(b, "X", 0)) * (Get(a, "X", 0) - Get(b, "X", 0))
    + (Get(a, "Y", 0) - Get(b, "Y", 0)) * (Get(a, "Y", 0) - Get(b, "Y", 0))
    + (Get(a, "Z", 0) - Get(b, "Z", 0)) * (Get(a, "Z", 0) - Get(b, "Z", 0))

\* n = ceil(sqrt(dsq) / cap) for the cap num / den: (n - 1) * cap < d <= n * cap
IsCeilOf(n, dsq, num, den) ==
    /\ n >= 1
    /\ n * num * n * num >= dsq * den * den
    /\ (n - 1) * num * (n - 1) * num < dsq * den * den

\* the point at an axis mapping
PointAt(axes) ==
    <<Rat(Get(axes, "X", 0), 1), Rat(Get(axes, "Y", 0), 1), Rat(Get(axes, "Z", 0), 1),
      Rat(Get(axes, "A", 0), 1), Rat(Get(axes, "B", 0), 1), Rat(Get(axes, "C", 0), 1)>>

\* C15: a linear move of XYZ length d > 0 adds one entry of
\* max(1, ceil(d / max_segment)) points; a move of length 0 adds one entry
\* of exactly one point, the end position, with duration 0.
C15_LinearSegmentCount ==
    [][AtLinearMove =>
        /\ Len(tool_path') = Len(tool_path) + 1
        /\ IF DistSq(state.axes, state'.axes) > 0
           THEN IsCeilOf(Len(tool_path'[Len(tool_path')][1]),
                         DistSq(state.axes, state'.axes), MaxSegmentNum, MaxSegmentDen)
           ELSE tool_path'[Len(tool_path')] = << <<PointAt(state'.axes)>>, ZeroDuration >>]_vars

\* G1 X5 from the origin gave ten points, the following move to the same
\* position one point with duration 0
C15_Witness ==
    /\ pc = "returned" /\ nodes = <<"lin_x5", "g91_x5">>
    /\ run_start.axes = DefaultAxes
    /\ Len(tool_path) = 2
    /\ Len(tool_path[1][1]) = 10
    /\ tool_path[2] = << <<PointAt(state.axes)>>, ZeroDuration >>

IsArc(nd) == InterpMode(NodePool[nd].g_code) \in {"G02", "G03"}

\* the loop is about to hand a circular-move node to the chain
AtArcMove == pc = "running" /\ LoopGuard(node, steps, max_steps) /\ IsArc(node)

\* (arc length / pi)^2 of an emitted entry, from its duration
\* arc_length / (feed / 60) = pi * sqrt(sq / per)
ArcLengthSq(entry, feed) ==
    RMul(<<entry[2].sq, entry[2].per>>, Rat(feed * feed, SecondsPerMinute * SecondsPerMinute))

\* n = max(2, ceil(L / cap)) for the cap num / den and (L / pi)^2 = lsq:
\* n * cap >= L, and n = 2 or (n - 1) * cap < L, with 9.869 < pi^2 < 9.870
IsArcCountOf(n, lsq, num, den) ==
    /\ n >= 2
    /\ n * n * num * num * lsq[2] * 1000 >= 9870 * lsq[1] * den * den
    /\ n = 2 \/ (n - 1) * (n - 1) * num * num * lsq[2] * 1000 <= 9869 * lsq[1] * den * den

IsFraction(x) == Len(x) = 2

\* (px - bx)^2 + (py - by)^2 for fractions
GapSq(px, py, bx, by) ==
    RAdd(RMul(RSub(px, bx), RSub(px, bx)), RMul(RSub(py, by), RSub(py, by)))

\* sqrt(dsq) <= k * 1e-9 * sqrt(rho), i.e. dsq * 1e18 <= k * k * rho
WithinTol(dsq, rho, k) ==
    dsq[1] <= (((k * k * rho[1] * dsq[2]) \div 1000000000) \div rho[2]) \div 1000000000

\* |a - b| for fractions
RGap(a, b) == IF RSub(a, b)[1] < 0 THEN RSub(b, a) ELSE RSub(a, b)

\* the point p lies within 1e-9 * radius of the circle of squared radius
\* rho about <<cx, cy>>: | |p - c|^2 - rho | <= 3e-9 * rho is necessary
OnCircle(p, cx, cy, rho) ==
    (IsFraction(p[1]) /\ IsFraction(p[2])) =>
        LET gap == RGap(GapSq(p[1], p[2], cx, cy), rho)
        IN gap[1] * rho[2] * 1000000000 <= 3 * rho[1] * gap[2]

\* the last point lies within 1e-9 * radius of the target b
EndsAt(p, b, rho) ==
    (IsFraction(p[1]) /\ IsFraction(p[2])) =>
        WithinTol(GapSq(p[1], p[2], Rat(Get(b, "X", 0), 1), Rat(Get(b, "Y", 0), 1)), rho, 1)

\* the squared radius of the arc a node describes from axes a to axes b
RadiusSq(nd, a, b) ==
    LET c == ArcCenter(a, b, Params(NodePool[nd].command_parameter),
                       InterpMode(NodePool[nd].g_code) = "G02")
    IN GapSq(Rat(Get(a, "X", 0), 1), Rat(Get(a, "Y", 0), 1), c[1], c[2])

\* the new entry of a circular move from axes a to axes b
ArcEntryOk(nd, a, b, entry, rho) ==
    LET c == ArcCenter(a, b, Params(NodePool[nd].command_parameter),
                       InterpMode(NodePool[nd].g_code) = "G02")
    IN /\ EndsAt(LastPoint(entry), b, rho)
       /\ \A i \in 1..Len(entry[1]) : OnCircle(entry[1][i], c[1], c[2], rho)

\* C17: a circular move that returns emits points on the circle about its
\* centre through the start, the last of them within 1e-9 * radius of the
\* target, which is where state.axes is afterwards.
C17_ArcEndsAtTarget ==
    [][(AtArcMove /\ pc' # "raised") =>
        ArcEntryOk(node, state.axes, state'.axes, tool_path'[Len(tool_path')],
                   RadiusSq(node, state.axes, state'.axes))]_vars

\* a G2/G3 node without I and J whose R is absent or zero
LacksCenter(nd) ==
    /\ IsArc(nd)
    /\ \A i \in 1..Len(NodePool[nd].command_parameter) :
          /\ Upper(NodePool[nd].command_parameter[i][1]) \notin {"I", "J"}
          /\ Upper(NodePool[nd].command_parameter[i][1]) = "R"
                => _to_float(NodePool[nd].command_parameter[i][2], 0) = 0

\* a G2/G3 node without I and J, with a non-zero R, whose target has the X
\* and Y of the position st
ZeroChord(nd, st) ==
    /\ IsArc(nd)
    /\ ~LacksCenter(nd)
    /\ \A i \in 1..Len(NodePool[nd].command_parameter) :
          Upper(NodePool[nd].command_parameter[i][1]) \notin {"I", "J"}
    /\ \A ax \in {"X", "Y"} :
          IF ax \in Referenced(nd)
          THEN IF st.modal_groups.distance = "G91"
               THEN TargetSpec(NodePool[nd].command_parameter)[ax] = 0
               ELSE TargetSpec(NodePool[nd].command_parameter)[ax] = Get(st.axes, ax, 0)
          ELSE TRUE

\* C18: a G2/G3 node with neither I nor J and no non-zero R, or with a
\* non-zero R and a chord of length zero, raises; state.axes stays as it
\* was and no entry is added for the node.
C18_BadArcRejected ==
    [][(pc = "running" /\ LoopGuard(node, steps, max_steps)
            /\ (LacksCenter(node) \/ ZeroChord(node, state))) =>
        /\ pc' = "raised"
        /\ error' = (IF LacksCenter(node) THEN "Arc requires I/J or R parameter"
                                         ELSE "Invalid arc with zero chord length")
        /\ state'.axes = state.axes
        /\ tool_path' = tool_path]_vars

\* after an arc that moved the axes and left an entry, an arc with a zero
\* chord has been rejected
C18_Witness ==
    /\ pc = "raised" /\ error = "Invalid arc with zero chord length"
    /\ Len(nodes) = 2 /\ node = nodes[2]
    /\ Len(tool_path) = 1
    /\ state.axes # run_start.axes

\* a motion node one of whose axis parameters carries a text float() refuses
HasBadAxisLiteral(nd) ==
    /\ IsLinear(nd) \/ IsArc(nd)
    /\ \E i \in 1..Len(NodePool[nd].command_parameter) :
          /\ Upper(NodePool[nd].command_parameter[i][1])
                \in {"X", "Y", "Z", "A", "B", "C", "U", "V", "W"}
          /\ NodePool[nd].command_parameter[i][2] \notin DOMAIN FloatOf

\* C19: a motion node with an axis literal that is not a number aborts with
\* an error and leaves state.axes alone, so no axis ever takes a value put
\* in place of the literal.
C19_InvalidNumberAborts ==
    [][(pc = "running" /\ LoopGuard(node, steps, max_steps) /\ HasBadAxisLiteral(node)) =>
        /\ pc' = "raised"
        /\ state'.axes = state.axes]_vars

\* the loop is about to hand a motion node to the chain
AtMove == pc = "running" /\ LoopGuard(node, steps, max_steps) /\ (IsLinear(node) \/ IsArc(node))

\* the value of an axis at the parameter i / n between the values s and e
Between(s, e, i, n) == Rat(s * n + (e - s) * i, n)

\* point i of n lies at the parameter t = i / n between the axes a and b in Z
AtParameterZ(p, a, b, i, n) == p[3] = Between(Get(a, "Z", 0), Get(b, "Z", 0), i, n)

\* point i of n lies at the parameter t = i / n between the axes a and b in
\* X, Y and Z
AtParameter(p, a, b, i, n) ==
    /\ p[1] = Between(Get(a, "X", 0), Get(b, "X", 0), i, n)
    /\ p[2] = Between(Get(a, "Y", 0), Get(b, "Y", 0), i, n)
    /\ AtParameterZ(p, a, b, i, n)

\* the points of an entry, none of them at the position a in X, Y, Z, each
\* at its parameter i / n
InOrderPast(pts, a, b, linear) ==
    /\ \A i \in 1..Len(pts) :
          /\ <<pts[i][1], pts[i][2], pts[i][3]>> # <<PointAt(a)[1], PointAt(a)[2], PointAt(a)[3]>>
          /\ IF linear THEN AtParameter(pts[i], a, b, i, Len(pts))
                       ELSE AtParameterZ(pts[i], a, b, i, Len(pts))
    /\ \A i, j \in 1..Len(pts) : i < j => pts[i] # pts[j]

IsDuration(d) == d.sq >= 0 /\ d.per > 0 /\ d.pi \in {0, 1}

\* C21: every entry of the tool path carries a duration that is a number
\* and not negative, whatever state.feed_rate is (unset, zero, negative,
\* positive); points that come with no duration are stored with duration 0.
C21_DurationsNonNegative ==
    /\ \A i \in 1..Len(tool_path) : IsDuration(tool_path[i][2])
    /\ LET tp == AppendResult(tool_path,
                    Returned(TRUE, <<PointAt(state.axes)>>, <<>>, state, next_ncCode))
       IN tp[Len(tp)] = << <<PointAt(state.axes)>>, ZeroDuration >>

\* with a negative feed rate the half circle and the move to X5 after it
\* have been stored with duration 0
C21_Witness ==
    /\ pc = "returned" /\ nodes = <<"arc_r_half", "lin_x5">>
    /\ run_start.feed_rate = <<-60>>
    /\ Len(tool_path) = 2
    /\ Len(tool_path[2][1]) = 10
    /\ tool_path[1][2] = ZeroDuration /\ tool_path[2][2] = ZeroDuration

\* the number a tool word carries
ToolNumber == ("1" :> 1) @@ ("0101" :> 101) @@ ("10000" :> 10000)

\* a node with a tool word outside 0 .. 9999
HasToolOutOfRange(nd) ==
    \E i \in 1..Len(NodePool[nd].command_parameter) :
        /\ Upper(NodePool[nd].command_parameter[i][1]) = "T"
        /\ ToolNumber[NodePool[nd].command_parameter[i][2]] \notin 0..9999

\* C22: a node whose tool number is out of range makes run_nc_code_list
\* raise "Tool number T10000 out of range".
C22_ToolOutOfRangeRaises ==
    [][(pc = "running" /\ LoopGuard(node, steps, max_steps) /\ HasToolOutOfRange(node)) =>
        /\ pc' = "raised"
        /\ error' = "Tool number T10000 out of range"]_vars

\* the node a GOTO on nd names in the tables ctl, or <<>>
JumpTarget(nd, ctl) ==
    IF GotoOf(NodePool[nd].loop_command) = <<>> THEN <<>>
    ELSE <<ctl.n_map[_to_float(GotoOf(NodePool[nd].loop_command)[1], 0)]>>

\* C23: the loop follows the pointer the node has after the chain handled
\* it: a GOTO handled in this call decides the next node; and a node whose
\* pointer then is the node itself ends the run at once, returning normally
\* without another call on it.
C23_PointerReadAfterHandling ==
    [][(pc = "running" /\ LoopGuard(node, steps, max_steps) /\ pc' # "raised") =>
        /\ JumpTarget(node, control) # <<>> => next_ncCode'[node] = JumpTarget(node, control)[1]
        /\ JumpTarget(node, control) = <<>> => next_ncCode'[node] = next_ncCode[node]
        /\ calls' = calls + 1
        /\ IF next_ncCode'[node] = node
           THEN pc' = "returned" /\ node' = node /\ steps' = steps
           ELSE pc' = "running" /\ node' = next_ncCode'[node] /\ steps' = steps + 1]_vars

\* G1 X5 / N3 GOTO 3 / G1 X3 Y4 has returned on the second node after two
\* calls, the third node never run
C23_Witness ==
    /\ pc = "returned" /\ nodes = <<"lin_x5", "goto_self", "lin_xy">>
    /\ node = "goto_self" /\ next_ncCode["goto_self"] = "goto_self"
    /\ calls = 2 /\ steps = 1
    /\ Len(tool_path) = 1

NValues(nd) ==
    LET ps == NodePool[nd].command_parameter
    IN {FloatOf[ps[j][2]] : j \in {h \in 1..Len(ps) : ps[h][1] = "N" /\ ps[h][2] \in DOMAIN FloatOf}}

HasMarker(nd, op, t) ==
    \E j \in 1..Len(NodePool[nd].loop_command) :
        NodePool[nd].loop_command[j] = [op |-> op, tag |-> t]

MarkerTags(l, op) ==
    {t \in {"1", "2"} : \E i \in 1..Len(l) : HasMarker(l[i], op, t)}

MarkedNodes(l, op, t) == SelectSeq(l, LAMBDA nd : HasMarker(nd, op, t))

DescribesList(ctl, l) ==
    /\ ctl.nodes = l
    /\ DOMAIN ctl.n_map = UNION {NValues(l[i]) : i \in 1..Len(l)}
    /\ \A k \in DOMAIN ctl.n_map :
          \E i \in 1..Len(l) : ctl.n_map[k] = l[i] /\ k \in NValues(l[i])
    /\ DOMAIN ctl.do_map = MarkerTags(l, "DO")
    /\ \A t \in DOMAIN ctl.do_map : ctl.do_map[t] = MarkedNodes(l, "DO", t)
    /\ DOMAIN ctl.end_map = MarkerTags(l, "END")
    /\ \A t \in DOMAIN ctl.end_map : ctl.end_map[t] = MarkedNodes(l, "END", t)
    /\ ctl.loop_counters = <<>>

C25_TablesDescribeRun ==
    [][history' # history => DescribesList(control', nodes')]_vars

\* the second run on a canal has started: the first left a label, both loop
\* maps and a counter behind, the tables now hold the second list's only
C25_Witness ==
    /\ history[1] = << <<"label_1", "do_1", "lin_x5", "end_1">>,
                       <<"do_1_lin", "label_2_lin", "do_1">> >>
    /\ pc = "running" /\ calls = 0
    /\ DOMAIN control.n_map = {2}
    /\ control.do_map = ("1" :> <<"do_1_lin", "do_1">>)
    /\ control.end_map = <<>>
    /\ control.loop_counters = <<>>

\* C26: after the linking step of a run, every node of the list but the last
\* points to its source-order successor and the last node has no successor,
\* whatever pointers the nodes carried from an earlier run
C26_LinkedInSourceOrder ==
    [][history' # history =>
        /\ \A i \in 1..(Len(nodes') - 1) : next_ncCode'[nodes'[i]] = nodes'[i + 1]
        /\ Len(nodes') > 0 => next_ncCode'[nodes'[Len(nodes')]] = "None"]_vars

\* a G2/G3 node whose centre comes from a non-zero R (no I, no J)
GivenByR(nd) ==
    /\ IsArc(nd)
    /\ ~LacksCenter(nd)
    /\ \A i \in 1..Len(NodePool[nd].command_parameter) :
          Upper(NodePool[nd].command_parameter[i][1]) \notin {"I", "J"}

\* (sweep / pi)^2 of an emitted arc entry of squared radius rho, as a fraction
SweepSq(entry, feed, rho) ==
    LET lsq == ArcLengthSq(entry, feed)
    IN <<lsq[1] * rho[2], lsq[2] * rho[1]>>

\* C27: an arc given by R sweeps at most pi when R > 0 and at least pi when
\* R < 0, for G2 and for G3
C27_RadiusSignChoosesArc ==
    [][(AtArcMove /\ GivenByR(node) /\ pc' # "raised") =>
        LET r == Params(NodePool[node].command_parameter)["R"]
            sw == SweepSq(tool_path'[Len(tool_path')], FeedOf(state),
                          RadiusSq(node, state.axes, state'.axes))
        IN /\ r > 0 => sw[1] <= sw[2]
           /\ r < 0 => sw[1] >= sw[2]]_vars

\* the sweep, in units of pi/4, of the arc a node describes from axes a to
\* axes b: a1 - a0 about the centre, normalised for the rotation sense
SweepOf(nd, a, b) ==
    LET cw == InterpMode(NodePool[nd].g_code) = "G02"
        c == ArcCenter(a, b, Params(NodePool[nd].command_parameter), cw)
        sx == Rat(Get(a, "X", 0), 1)
        sy == Rat(Get(a, "Y", 0), 1)
        ex == Rat(Get(b, "X", Get(a, "X", 0)), 1)
        ey == Rat(Get(b, "Y", Get(a, "Y", 0)), 1)
    IN Sweep(Atan2(RSub(sy, c[2]), RSub(sx, c[1])),
             Atan2(RSub(ey, c[2]), RSub(ex, c[1])), cw)

\* C28: the sweep of every circular move lies strictly between -2*pi and 0
\* for G2 and strictly between 0 and 2*pi for G3, and the emitted entry has
\* the length of that sweep, also when the end of the arc is its start
C28_SweepSignAndRange ==
    [][(AtArcMove /\ pc' # "raised") =>
        LET da == SweepOf(node, state.axes, state'.axes)
            sw == SweepSq(tool_path'[Len(tool_path')], FeedOf(state),
                          RadiusSq(node, state.axes, state'.axes))
        IN /\ IF InterpMode(NodePool[node].g_code) = "G02"
              THEN -8 < da /\ da < 0
              ELSE 0 < da /\ da < 8
           /\ sw[1] * 16 = da * da * sw[2]]_vars

\* C29: a circular move handled while the plane modal is G18 or G19 is
\* rejected with an unsupported-plane error, nothing is emitted and
\* state.axes is unchanged
C29_ArcOutsideXYRejected ==
    [][(AtArcMove /\ state.modal_groups.plane \in {"G18", "G19"}) =>
        /\ pc' = "raised"
        /\ error' = "unsupported plane"
        /\ tool_path' = tool_path
        /\ state'.axes = state.axes]_vars


====
